---- MODULE Spec2Model ----
(***************************************************************************)
(* crontask: the reconciliation engine that keeps the job registry and the *)
(* cron dispatcher in step with container lifecycle events.                *)
(*                                                                         *)
(* Go strings are modelled as sequences of one-character strings, so that  *)
(* strings.Index, slicing, strings.Fields, strings.HasPrefix and           *)
(* fmt.Sprintf are computed as the code computes them.                     *)
(***************************************************************************)
EXTENDS Integers, Sequences, FiniteSets, TLC

VARIABLES
    jobs,        \* JobRegistry.jobs: map job id -> DockerJob
    entries,     \* the entries held by Worker.cron (never removed by the worker)
    nextID,      \* the cron scheduler's entry id counter
    panicked,    \* the process died of a runtime panic in the event goroutine
    lastEvent,   \* the ContainerEvent processed by the last Reconciler step
    removedJobs, \* the job ids returned by the last RemoveJobsByContainer
    trace,       \* history: the events processed since construction (SpecReuse)
    oplog,       \* history: the registry operations applied (SpecRegistry)
    executions,  \* the executeJob calls the scheduler made at the last instant
    tasks,       \* shutdown.Manager.tasks: map name -> Task
    mgrShutdown, \* shutdown.Manager.shutdown is closed
    registered,  \* history: the names given to RegisterTask, in call order
    invoked,     \* history: the tasks executeTasks called, in call order
    execErr,     \* what executeTasks returned, "none" before it has run
    config,      \* Config.Docker (Enabled, SocketPath) and the platform (GOOS)
    env,         \* what a connection attempt to each endpoint comes to
    monitor,     \* what docker.NewMonitor returned to worker.New
    runPc,       \* where main/App.Run stands
    runErr,      \* what App.Run returned, "none" before it has returned
    sigPc,       \* where the signal handler goroutine stands
    wg,          \* App.wg: the wait group's counter
    ctxDone,     \* the context made by App.Run is cancelled
    workerPc,    \* where the Worker.run goroutine stands
    wShutdown,   \* Worker.shutdown is closed
    cronRunning, \* Worker.cron is started and not stopped
    monState,    \* the DockerMonitor: "new", "started" or "stopped"
    stopLog,     \* history: the stop calls made by Worker.cleanup, in order
    runtime,     \* the container runtime: the state of each container id
    stream,      \* the runtime's event stream: messages not yet read
    reader,      \* where the monitorEvents goroutine stands, and what it holds
    eventsChan,  \* DockerMonitor.eventsChan: the buffered channel's content
    adapterPc,   \* DockerMonitor: "new", "scan" (in Start) or "monitor"
    toScan,      \* the containers scanExistingContainers has yet to visit
    emitted,     \* the number of messages the runtime has emitted
    received,    \* history: the messages the reader took from the stream
    processed,   \* history: the events the Reconciler has processed
    extractIn,   \* the container handed to ExtractCronJobs (SpecExtract)
    extracted,   \* what ExtractCronJobs did with it, and in which key order
    handlerDone, \* whether the handleDockerEvents goroutine has returned
    inflight,    \* the executions started and not yet returned (SpecStop)
    atSignal,    \* history: the events in eventsChan when shutdown was signalled
    errs         \* the error channel of client.Events: "open", "failed", "closed"

vars == <<jobs, entries, nextID, panicked, lastEvent, removedJobs, trace, oplog,
          executions, tasks, mgrShutdown, registered, invoked, execErr,
          config, env, monitor, runPc, runErr, sigPc, wg, ctxDone, workerPc,
          wShutdown, cronRunning, monState, stopLog,
          runtime, stream, reader, eventsChan, adapterPc, toScan, emitted,
          received, processed, extractIn, extracted, handlerDone,
          inflight, atSignal, errs>>

\* the variables of the parts around the Reconciler, by part
fireVars == <<executions>>
mgrVars == <<tasks, mgrShutdown, registered, invoked, execErr>>
appVars == <<config, env, monitor, runPc, runErr, sigPc, wg, ctxDone, workerPc,
             wShutdown, cronRunning, monState, stopLog>>
pipeVars == <<runtime, stream, reader, eventsChan, adapterPc, toScan, emitted,
              received, processed>>
extractVars == <<extractIn, extracted>>
otherVars == <<extractVars, handlerDone, inflight, atSignal, errs>>
restVars == <<fireVars, mgrVars, appVars, pipeVars, otherVars>>

----------------------------------------------------------------------------
(* Bounds *)

MaxEntryID == 2   \* cap on the cron entry id counter
MaxTrace == 3     \* events per behaviour of SpecReuse
MaxOps == 3       \* registry operations per behaviour of SpecRegistry
MaxTasks == 3     \* RegisterTask calls per behaviour of SpecShutdown
MaxEmitted == 3   \* messages the runtime emits per behaviour of SpecPipeline
ChanCap == 2      \* events eventsChan holds (the code's channel holds 100)

----------------------------------------------------------------------------
(* Strings *)

Min(S) == CHOOSE x \in S : \A y \in S : x <= y

Repeat(ch, n) == [i \in 1..n |-> ch]

\* strings.Index: 0-based index of the first occurrence of sub in s, or -1
Index(s, sub) ==
    LET hits == {i \in 0..(Len(s) - Len(sub)) : SubSeq(s, i + 1, i + Len(sub)) = sub}
    IN IF hits = {} THEN -1 ELSE Min(hits)

\* strings.HasPrefix
HasPrefix(s, prefix) ==
    Len(s) >= Len(prefix) /\ SubSeq(s, 1, Len(prefix)) = prefix

\* s[lo:hi] with Go's 0-based half-open bounds (callers check lo <= hi)
Slice(s, lo, hi) == SubSeq(s, lo + 1, hi)

IsSpace(ch) == ch = " "

\* strings.Fields: the maximal runs of non-space characters
RECURSIVE Fields(_)
Fields(s) ==
    IF s = <<>> THEN <<>>
    ELSE IF IsSpace(Head(s)) THEN Fields(Tail(s))
    ELSE LET stops == {i \in 1..Len(s) : IsSpace(s[i])}
             n == IF stops = {} THEN Len(s) ELSE Min(stops) - 1
         IN <<SubSeq(s, 1, n)>> \o Fields(SubSeq(s, n + 1, Len(s)))

----------------------------------------------------------------------------
(* Containers, labels and events *)

ShortIDLen == 12

ID1 == Repeat("a", ShortIDLen) \o <<"1">>
ID2 == Repeat("b", ShortIDLen) \o <<"2">>
ID3 == Repeat("c", ShortIDLen) \o <<"3">>
ContainerIDs == {ID1, ID2}

\* the containers of a runtime that holds more of them than eventsChan does
StartupIDs == {ID1, ID2, ID3}

\* the name inspect reports for a container (leading "/" already trimmed)
NameOf(id) ==
    IF id = ID1 THEN <<"w", "e", "b">>
    ELSE IF id = ID2 THEN <<"d", "b">> ELSE <<"m", "q">>

LabelPrefix == <<"c", "t", ".">>

Star5 == <<"*", " ", "*", " ", "*", " ", "*", " ", "*">>
Star6 == <<"*", "/", "5", " ">> \o Star5
Star4 == <<"*", " ", "*", " ", "*", " ", "*">>
Junk5 == <<"x", " ", "x", " ", "x", " ", "x", " ", "x">>
Hourly == <<"@", "h", "o", "u", "r", "l", "y">>

\* <prefix>cronjob('<SCHEDULE>').task
KeyOf(sched) == LabelPrefix \o <<"j", "(", "'">> \o sched \o <<"'", ")", ".", "t">>

K5 == KeyOf(Star5)
K6 == KeyOf(Star6)
K4 == KeyOf(Star4)
KJunk == KeyOf(Junk5)
KHourly == KeyOf(Hourly)
KNoOpen == LabelPrefix \o <<"j">> \o Star5 \o <<"'", ")", ".", "t">>
KNoClose == LabelPrefix \o <<"j", "(", "'">> \o Star5 \o <<".", "t">>
KOverlap == LabelPrefix \o <<"j", "(", "'", ")", ".", "t">>
KOther == <<"o", ".">> \o <<"j", "(", "'">> \o Star5 \o <<"'", ")", ".", "t">>
KBefore == LabelPrefix \o <<"'", ")", "j", "(", "'">> \o Star5
KOtherBad == <<"o", ".", "j">>

NoLabels == [k \in {} |-> ""]
LOne == K5 :> "a"
LTwo == K5 :> "a" @@ K6 :> "b"
LJunk == KJunk :> "a"
LMixed == K5 :> "a" @@ K6 :> "b" @@ K4 :> "x"
LNoOpen == K5 :> "a" @@ KNoOpen :> "x"
LNoClose == K5 :> "a" @@ KNoClose :> "x"
LOther == K5 :> "a" @@ KOther :> "x"
LHourly == KHourly :> "a"
LOverlap == KOverlap :> "a"
LBefore == KBefore :> "a"
LOtherBad == K5 :> "a" @@ KOtherBad :> "x"

\* the label maps of the reconciliation model
LabelMaps == {NoLabels, LOne, LTwo, LJunk}

States == {"running", "exited"}
Actions == {"scan", "create", "start", "update", "die", "destroy", "stop"}

\* ContainerInfo as getContainerInfo builds it
ContainerInfo(id, state, labels) ==
    [ID |-> id, Name |-> NameOf(id), State |-> state, Labels |-> labels]

ContainerEvent(action, info) ==
    [Action |-> action, ContainerID |-> info.ID, Container |-> info]

AnnounceActions == {"scan", "create", "start", "update"}
TerminalActions == {"die", "destroy"}

\* the events of the reconciliation model. An announcement of a running
\* container carries any label map; the labels of the other events, which no
\* handler reads, are one fixed map, and a container that died is not running
Events ==
    {ContainerEvent(a, ContainerInfo(id, "running", l)) :
        a \in AnnounceActions, id \in ContainerIDs, l \in LabelMaps}
    \cup
    {ContainerEvent(a, ContainerInfo(id, "exited", LOne)) :
        a \in Actions, id \in ContainerIDs}

NoEvent == [Action |-> "none"]

\* the enumeration orders of a label map (Go randomises map iteration)
Orders(labels) ==
    {o \in [1..Cardinality(DOMAIN labels) -> DOMAIN labels] :
        \A i, j \in DOMAIN o : i # j => o[i] # o[j]}

AllLabelMaps ==
    {NoLabels, LOne, LTwo, LJunk, LMixed, LNoOpen, LNoClose, LOther, LHourly, LOverlap,
     LBefore, LOtherBad}
OrdersOf == [l \in AllLabelMaps |-> Orders(l)]

----------------------------------------------------------------------------
(* Label Parser: pkg/docker/monitor.go *)

\* parseCronExpression: the schedule text of a label key, an error, or a
\* runtime panic (slice bounds out of range) when ') ends before (' does
parseCronExpression(labelKey) ==
    LET start == Index(labelKey, <<"(", "'">>)
        end == Index(labelKey, <<"'", ")">>)
    IN IF start = -1 THEN [kind |-> "err", err |-> "missing ("]
       ELSE IF end = -1 THEN [kind |-> "err", err |-> "missing )"]
       ELSE IF start + 2 > end THEN [kind |-> "panic"]
       ELSE LET cronExpr == Slice(labelKey, start + 2, end)
            IN IF Len(Fields(cronExpr)) < 5
               THEN [kind |-> "err", err |-> "invalid cron expression"]
               ELSE [kind |-> "ok", expr |-> cronExpr]

\* the parser is a pure function of the key: its results, tabulated once
LabelKeys == {K5, K6, K4, KJunk, KHourly, KNoOpen, KNoClose, KOverlap, KOther,
              KBefore, KOtherBad}
ParsedKeys == [k \in LabelKeys |-> parseCronExpression(k)]

\* the record ExtractCronJobs appends for a label
CronJob(container, labelKey, cronExpr, task) ==
    [ContainerID |-> container.ID,
     ContainerName |-> container.Name,
     CronExpr |-> cronExpr,
     Task |-> task,
     LabelKey |-> labelKey,
     IsActive |-> container.State = "running"]

\* an extraction that parses every label key, whatever its prefix
RECURSIVE ExtractCronJobsAnyPrefix(_, _)
ExtractCronJobsAnyPrefix(container, order) ==
    IF order = <<>> THEN [panic |-> FALSE, cronJobs |-> <<>>, warned |-> <<>>]
    ELSE LET labelKey == Head(order)
             parsed == ParsedKeys[labelKey]
             rest == ExtractCronJobsAnyPrefix(container, Tail(order))
         IN IF parsed.kind = "panic"
            THEN [panic |-> TRUE, cronJobs |-> <<>>, warned |-> <<>>]
            ELSE IF parsed.kind = "err"
            THEN [rest EXCEPT !.warned = <<labelKey>> \o rest.warned]
            ELSE [rest EXCEPT !.cronJobs =
                     IF rest.panic THEN <<>>
                     ELSE <<CronJob(container, labelKey, parsed.expr,
                                    container.Labels[labelKey])>> \o rest.cronJobs]

\* ExtractCronJobs: ranging over the keys in the given enumeration order, a
\* key without the prefix is passed over, a key the parser rejects is logged
\* with Warn and passed over, any other key appends a CronJob; panic when a
\* visited key makes the parser panic. warned: the keys logged, in order
RECURSIVE ExtractCronJobs(_, _)
ExtractCronJobs(container, order) ==
    IF order = <<>> THEN [panic |-> FALSE, cronJobs |-> <<>>, warned |-> <<>>]
    ELSE LET labelKey == Head(order)
             task == container.Labels[labelKey]
             parsed == ParsedKeys[labelKey]
             rest == ExtractCronJobs(container, Tail(order))
         IN IF ~HasPrefix(labelKey, LabelPrefix) THEN rest
            ELSE IF parsed.kind = "panic"
            THEN [panic |-> TRUE, cronJobs |-> <<>>, warned |-> <<>>]
            ELSE IF parsed.kind = "err"
            THEN [rest EXCEPT !.warned = <<labelKey>> \o rest.warned]
            ELSE [rest EXCEPT !.cronJobs =
                     IF rest.panic THEN <<>>
                     ELSE <<CronJob(container, labelKey, parsed.expr, task)>>
                          \o rest.cronJobs]

----------------------------------------------------------------------------
(* Job and Job Registry: internal/job/docker_job.go *)

NewDockerJob(containerID, name, cronExpr, task) ==
    [id |-> Slice(containerID, 0, ShortIDLen) \o <<"-">> \o name,
     containerID |-> containerID,
     name |-> name,
     cronExpr |-> cronExpr,
     task |-> task,
     cronEntryID |-> 0,
     lastRun |-> <<>>]

\* DockerJob.Name: "docker-" + id
Name(job) == <<"d", "o", "c", "k", "e", "r", "-">> \o job.id

NewJobRegistry == [id \in {} |-> 0]

\* mutant: an add that overwrites the job held under the id
AddJobOverwrites(reg, job) ==
    [jobs |-> [id \in DOMAIN reg \cup {job.id} |->
                  IF id = job.id THEN job ELSE reg[id]],
     ok |-> TRUE]

AddJob(reg, job) ==
    IF job.id \in DOMAIN reg
    THEN [jobs |-> reg, ok |-> FALSE]
    ELSE [jobs |-> [id \in DOMAIN reg \cup {job.id} |->
                        IF id = job.id THEN job ELSE reg[id]],
          ok |-> TRUE]

\* mutant: a remove that reports the job found and leaves it in the map
RemoveJobKeeps(reg, jobID) ==
    [jobs |-> reg, ok |-> jobID \in DOMAIN reg]

RemoveJob(reg, jobID) ==
    IF jobID \in DOMAIN reg
    THEN [jobs |-> [id \in DOMAIN reg \ {jobID} |-> reg[id]], ok |-> TRUE]
    ELSE [jobs |-> reg, ok |-> FALSE]

\* mutant: a removal that compares the job id, not the job's container id
RemoveJobsByContainerByJobID(reg, containerID) ==
    LET removed == {id \in DOMAIN reg : reg[id].id = containerID}
    IN [jobs |-> [id \in DOMAIN reg \ removed |-> reg[id]], removed |-> removed]

\* a removal that stops at the first job of the container it meets
RemoveJobsByContainerFirst(reg, containerID) ==
    LET found == {id \in DOMAIN reg : reg[id].containerID = containerID}
        removed == IF found = {} THEN {} ELSE {CHOOSE id \in found : TRUE}
    IN [jobs |-> [id \in DOMAIN reg \ removed |-> reg[id]], removed |-> removed]

RemoveJobsByContainer(reg, containerID) ==
    LET removed == {id \in DOMAIN reg : reg[id].containerID = containerID}
    IN [jobs |-> [id \in DOMAIN reg \ removed |-> reg[id]], removed |-> removed]

\* a setter that overwrites the job's command along with the handle
SetCronEntryIDClobbers(reg, jobID, entryID) ==
    [reg EXCEPT ![jobID].cronEntryID = entryID, ![jobID].task = "clobbered"]

\* DockerJob.SetCronEntryID through the pointer the registry holds
SetCronEntryID(reg, jobID, entryID) ==
    [reg EXCEPT ![jobID].cronEntryID = entryID]

JobsOf(reg, containerID) == {id \in DOMAIN reg : reg[id].containerID = containerID}

----------------------------------------------------------------------------
(* Cron Dispatcher: the robfig/cron scheduler built in worker.New with      *)
(* SecondOptional | Minute | Hour | Dom | Month | Dow | Descriptor          *)

Digits == {"1", "2", "3", "4", "5", "6", "7", "8", "9"}

\* a field the parser accepts for every position: "*" or "*/n"
FieldOK(f) ==
    \/ f = <<"*">>
    \/ Len(f) = 3 /\ f[1] = "*" /\ f[2] = "/" /\ f[3] \in Digits

Descriptors == {Hourly}

\* the parser accepts a descriptor, or five fields, or six with seconds
ParseOK(spec) ==
    IF spec # <<>> /\ Head(spec) = "@" THEN spec \in Descriptors
    ELSE LET fields == Fields(spec)
         IN /\ Len(fields) \in {5, 6}
            /\ \A i \in 1..Len(fields) : FieldOK(fields[i])

\* the parser is a pure function of the text: its verdicts, tabulated once
Schedules == {Star5, Star6, Star4, Junk5, Hourly}
ParsedSchedules == [s \in Schedules |-> ParseOK(s)]

\* cron.AddFunc(spec, func() { w.executeJob(dockerJob) }): a parse error, or a
\* new entry under the next id, whose callback holds the pointer to the job it
\* was made for (on which the caller then sets that id)
AddFunc(cron, spec, dockerJob) ==
    IF ~ParsedSchedules[spec]
    THEN [err |-> TRUE, entryID |-> 0, cron |-> cron]
    ELSE [err |-> FALSE,
          entryID |-> cron.nextID + 1,
          cron |-> [nextID |-> cron.nextID + 1,
                    entries |-> cron.entries \cup
                        {[ID |-> cron.nextID + 1, Spec |-> spec,
                          job |-> [dockerJob EXCEPT !.cronEntryID = cron.nextID + 1]]}]]

EntriesOf(ents, containerID) == {e \in ents : e.job.containerID = containerID}

DigitVal ==
    [d \in Digits |->
        CASE d = "1" -> 1 [] d = "2" -> 2 [] d = "3" -> 3 [] d = "4" -> 4
          [] d = "5" -> 5 [] d = "6" -> 6 [] d = "7" -> 7 [] d = "8" -> 8
          [] d = "9" -> 9]

\* a field "*" matches every value, "*/n" every n-th value from 0
FieldMatches(f, v) ==
    IF f = <<"*">> THEN TRUE ELSE v % DigitVal[f[3]] = 0

\* the instants the scheduler wakes at: second, minute and hour of a day that
\* every day-of-month, month and day-of-week field of Schedules matches
Seconds == {0, 5, 7}
Minutes == {0}
Instants == [sec : Seconds, min : Minutes, hour : {0}]

\* whether the schedule parsed from spec is due at instant t; five fields
\* stand for second 0, @hourly for second 0 of minute 0
Due(spec, t) ==
    IF spec = Hourly THEN t.sec = 0 /\ t.min = 0
    ELSE LET fields == Fields(spec)
             o == Len(fields) - 5
         IN /\ (IF o = 0 THEN t.sec = 0 ELSE FieldMatches(fields[1], t.sec))
            /\ FieldMatches(fields[o + 1], t.min)
            /\ FieldMatches(fields[o + 2], t.hour)

DueAt == [s \in {x \in Schedules : ParsedSchedules[x]} |-> [t \in Instants |-> Due(s, t)]]

\* what ExecuteTask can come to: the command ran and exited with 0, or an
\* error (the exec could not be created, attached, read or inspected, or the
\* exit code was not 0)
ExecOutcomes == {"ok", "failed"}

\* ExecuteTask(containerID, task): sh -c task in the container
ExecuteTask(containerID, task, outcome) ==
    [ContainerID |-> containerID, Task |-> task, err |-> outcome # "ok"]

\* an Execute that gives up the job's scheduler handle when the task fails
ExecuteClearsHandle(dockerJob, t, outcome) ==
    LET r == ExecuteTask(dockerJob.containerID, dockerJob.task, outcome)
    IN [job |-> [dockerJob EXCEPT !.lastRun = <<t>>,
                                  !.cronEntryID = IF r.err THEN 0 ELSE @],
        ran |-> r, err |-> r.err]

\* an Execute that sets lastRun after the task, and only when it succeeded
ExecuteStampsAfter(dockerJob, t, outcome) ==
    LET r == ExecuteTask(dockerJob.containerID, dockerJob.task, outcome)
    IN [job |-> IF r.err THEN dockerJob ELSE [dockerJob EXCEPT !.lastRun = <<t>>],
        ran |-> r, err |-> r.err]

\* DockerJob.Execute at instant t: lastRun is set, then the task is executed
\* once with the job's own container id and command; its error is returned
Execute(dockerJob, t, outcome) ==
    LET r == ExecuteTask(dockerJob.containerID, dockerJob.task, outcome)
    IN [job |-> [dockerJob EXCEPT !.lastRun = <<t>>], ran |-> r, err |-> r.err]

\* executeJob(job): job.Execute() is called once and its error is logged;
\* job: the id, after: the job object as the call leaves it
executeJob(dockerJob, t, outcome) ==
    LET r == Execute(dockerJob, t, outcome)
    IN [job |-> dockerJob.id, ContainerID |-> r.ran.ContainerID,
        Task |-> r.ran.Task, failed |-> r.err, after |-> r.job]

----------------------------------------------------------------------------
(* Reconciler: internal/worker/worker.go *)

\* the worker's registry and scheduler as one value threaded through a step
WorkerState(reg, cron) == [jobs |-> reg, cron |-> cron, removed |-> {}, panic |-> FALSE]

\* unregisterContainerJobs: registry only; the scheduler is left as it is
unregisterContainerJobs(w, containerID) ==
    LET r == RemoveJobsByContainer(w.jobs, containerID)
    IN [w EXCEPT !.jobs = r.jobs, !.removed = r.removed]

\* the body of the loop over cronJobs in registerContainerJobs
RECURSIVE registerLoop(_, _)
registerLoop(w, cronJobs) ==
    IF cronJobs = <<>> THEN w
    ELSE LET cronJob == Head(cronJobs)
             dockerJob == NewDockerJob(cronJob.ContainerID, cronJob.ContainerName,
                                       cronJob.CronExpr, cronJob.Task)
             added == AddJob(w.jobs, dockerJob)
             sched == AddFunc(w.cron, cronJob.CronExpr, dockerJob)
         IN IF ~added.ok THEN registerLoop(w, Tail(cronJobs))
            ELSE IF sched.err
            THEN registerLoop(
                     [w EXCEPT !.jobs = RemoveJob(added.jobs, Name(dockerJob)).jobs],
                     Tail(cronJobs))
            ELSE registerLoop(
                     [w EXCEPT !.jobs = SetCronEntryID(added.jobs, dockerJob.id, sched.entryID),
                               !.cron = sched.cron],
                     Tail(cronJobs))

registerContainerJobs(w, container, order) ==
    LET u == unregisterContainerJobs(w, container.ID)
        x == ExtractCronJobs(container, order)
    IN IF x.panic THEN [u EXCEPT !.panic = TRUE]
       ELSE registerLoop(u, x.cronJobs)

IsAnnounce(action) == action \in AnnounceActions
IsTerminal(action) == action \in TerminalActions

\* a reconciler that registers on every announcement, whatever the state
processDockerEventAnyState(w, event, order) ==
    IF IsAnnounce(event.Action)
    THEN registerContainerJobs(w, event.Container, order)
    ELSE IF IsTerminal(event.Action)
    THEN unregisterContainerJobs(w, event.ContainerID)
    ELSE w

\* a reconciler that unregisters on every action that is not an announcement
processDockerEventElseUnregisters(w, event, order) ==
    IF IsAnnounce(event.Action)
    THEN IF event.Container.State = "running"
         THEN registerContainerJobs(w, event.Container, order)
         ELSE w
    ELSE unregisterContainerJobs(w, event.ContainerID)

processDockerEvent(w, event, order) ==
    IF IsAnnounce(event.Action)
    THEN IF event.Container.State = "running"
         THEN registerContainerJobs(w, event.Container, order)
         ELSE w
    ELSE IF IsTerminal(event.Action)
    THEN unregisterContainerJobs(w, event.ContainerID)
    ELSE w

\* one iteration of handleDockerEvents: receive an event, process it
Reconcile(event, order) ==
    /\ ~panicked
    /\ \E w \in {processDockerEvent(
                     WorkerState(jobs, [nextID |-> nextID, entries |-> entries]),
                     event, order)} :
           /\ w.cron.nextID <= MaxEntryID
           /\ jobs' = w.jobs
           /\ entries' = w.cron.entries
           /\ nextID' = w.cron.nextID
           /\ panicked' = w.panic
           /\ removedJobs' = w.removed
           /\ lastEvent' = event

ProcessDockerEvent ==
    \E event \in Events : \E order \in OrdersOf[event.Container.Labels] :
        /\ Reconcile(event, order)
        /\ UNCHANGED <<trace, oplog, restVars>>

----------------------------------------------------------------------------
(* The Job Registry on its own: its operations applied to arbitrary jobs *)

Names == {<<"w", "e", "b">>, <<"d", "b">>}
Tasks == {"a", "b"}

RegistryJobs ==
    {NewDockerJob(id, name, Star5, task) :
        id \in ContainerIDs, name \in Names, task \in Tasks}

JobIDs == {j.id : j \in RegistryJobs}

Last(seq) == seq[Len(seq)]

\* an operation with its argument, what it returned and the ids held before
Logged(op, arg, ret) == [op |-> op, arg |-> arg, ret |-> ret, had |-> DOMAIN jobs]

AddJobOp ==
    \E job \in RegistryJobs : \E r \in {AddJob(jobs, job)} :
        /\ Len(oplog) < MaxOps
        /\ jobs' = r.jobs
        /\ oplog' = Append(oplog, Logged("AddJob", job, r.ok))
        /\ UNCHANGED <<entries, nextID, panicked, lastEvent, removedJobs, trace, restVars>>

RemoveJobOp ==
    \E jobID \in JobIDs : \E r \in {RemoveJob(jobs, jobID)} :
        /\ Len(oplog) < MaxOps
        /\ jobs' = r.jobs
        /\ oplog' = Append(oplog, Logged("RemoveJob", jobID, r.ok))
        /\ UNCHANGED <<entries, nextID, panicked, lastEvent, removedJobs, trace, restVars>>

RemoveJobsByContainerOp ==
    \E containerID \in ContainerIDs : \E r \in {RemoveJobsByContainer(jobs, containerID)} :
        /\ Len(oplog) < MaxOps
        /\ jobs' = r.jobs
        /\ oplog' = Append(oplog, Logged("RemoveJobsByContainer", containerID, r.removed))
        /\ UNCHANGED <<entries, nextID, panicked, lastEvent, removedJobs, trace, restVars>>

\* the handle of a job just added is set once, through the registry's pointer
SetCronEntryIDOp ==
    \E jobID \in DOMAIN jobs : \E entryID \in 1..MaxEntryID :
        /\ Len(oplog) < MaxOps
        /\ jobs[jobID].cronEntryID = 0
        /\ jobs' = SetCronEntryID(jobs, jobID, entryID)
        /\ oplog' = Append(oplog, Logged("SetCronEntryID", jobID, entryID))
        /\ UNCHANGED <<entries, nextID, panicked, lastEvent, removedJobs, trace, restVars>>

NextRegistry ==
    \/ AddJobOp
    \/ RemoveJobOp
    \/ RemoveJobsByContainerOp
    \/ SetCronEntryIDOp

----------------------------------------------------------------------------
(* Reuse of a container id: create and die events, with their history *)

ReuseEvents ==
    {ContainerEvent("create", ContainerInfo(id, "running", l)) :
        id \in ContainerIDs, l \in LabelMaps}
    \cup
    {ContainerEvent("die", ContainerInfo(id, "exited", LOne)) : id \in ContainerIDs}

ProcessReuseEvent ==
    \E event \in ReuseEvents : \E order \in OrdersOf[event.Container.Labels] :
        /\ Len(trace) < MaxTrace
        /\ Reconcile(event, order)
        /\ trace' = Append(trace, event)
        /\ UNCHANGED <<oplog, restVars>>

----------------------------------------------------------------------------
(* The scheduler firing the entries it holds, between Reconciler steps *)

\* the scheduler reaches instant t and calls, once, the callback of every
\* entry due at t; each callback is executeJob on the job the entry was made for
ProcessFireEvent ==
    \E event \in ReuseEvents : \E order \in OrdersOf[event.Container.Labels] :
        /\ Reconcile(event, order)
        /\ UNCHANGED <<trace, oplog, executions, mgrVars, appVars, pipeVars, otherVars>>

\* the events of one container: announcements with each label map, and die
ExecEvents == {event \in ReuseEvents : event.ContainerID = ID1}

ProcessExecEvent ==
    \E event \in ExecEvents : \E order \in OrdersOf[event.Container.Labels] :
        /\ Reconcile(event, order)
        /\ UNCHANGED <<trace, oplog, executions, mgrVars, appVars, pipeVars, otherVars>>

Tick ==
    \E t \in Instants :
        \E outcome \in [{x.ID : x \in {y \in entries : DueAt[y.Spec][t]}} -> ExecOutcomes] :
            LET run(e) == executeJob(e.job, t, outcome[e.ID])
                due == {x \in entries : DueAt[x.Spec][t]}
            IN /\ ~panicked
               /\ executions' = {[entry |-> e.ID, at |-> t, run |-> run(e)] : e \in due}
               \* the closure of an entry holds the pointer to its job
               /\ entries' = {IF e \in due THEN [e EXCEPT !.job = run(e).after] ELSE e :
                                 e \in entries}
               \* which is the object the registry holds while that job is
               \* registered
               /\ jobs' = [id \in DOMAIN jobs |->
                              IF \E e \in due : e.job = jobs[id]
                              THEN run(CHOOSE e \in due : e.job = jobs[id]).after
                              ELSE jobs[id]]
               /\ UNCHANGED <<nextID, panicked, lastEvent, removedJobs,
                              trace, oplog, mgrVars, appVars, pipeVars, otherVars>>

----------------------------------------------------------------------------
(* Shutdown manager: pkg/shutdown/shutdown.go *)

TaskNames == {"worker", "application", "logger"}

\* a Task is a func() error: what matters of it here is whether it fails
Task(fails) == [fails |-> fails]

NewManager == [n \in {} |-> Task(FALSE)]

\* RegisterTask: m.tasks[name] = task
RegisterTask(m, name, task) ==
    [n \in DOMAIN m \cup {name} |-> IF n = name THEN task ELSE m[n]]

\* a task sequence that gives up at the first task that fails
executeTasksAbort(m, order) ==
    LET failing == {i \in 1..Len(order) : m[order[i]].fails}
        n == IF failing = {} THEN Len(order) ELSE Min(failing)
    IN [invoked |-> [i \in 1..n |-> [name |-> order[i], err |-> m[order[i]].fails]],
        err |-> IF failing = {} THEN "nil" ELSE "task failed"]

\* executeTasks: range over the map in the order the runtime yields, call
\* each task, log a failure and go on; return nil
executeTasks(m, order) ==
    [invoked |-> [i \in 1..Len(order) |->
                     [name |-> order[i], err |-> m[order[i]].fails]],
     err |-> "nil"]

RegisterTaskOp ==
    \E name \in TaskNames : \E fails \in BOOLEAN :
        /\ Len(registered) < MaxTasks
        /\ execErr = "none"
        /\ tasks' = RegisterTask(tasks, name, Task(fails))
        /\ registered' = Append(registered, name)
        /\ UNCHANGED <<mgrShutdown, invoked, execErr>>
        /\ UNCHANGED <<jobs, entries, nextID, panicked, lastEvent, removedJobs,
                       trace, oplog, fireVars, appVars, pipeVars, otherVars>>

\* Initiate: close(m.shutdown)
Initiate ==
    /\ ~mgrShutdown
    /\ mgrShutdown' = TRUE
    /\ UNCHANGED <<tasks, registered, invoked, execErr>>
    /\ UNCHANGED <<jobs, entries, nextID, panicked, lastEvent, removedJobs,
                   trace, oplog, fireVars, appVars, pipeVars, otherVars>>

\* Wait, its shutdown case: the channel is closed and the tasks are executed
Wait ==
    \E order \in Orders(tasks) : \E r \in {executeTasks(tasks, order)} :
        /\ mgrShutdown
        /\ execErr = "none"
        /\ invoked' = r.invoked
        /\ execErr' = r.err
        /\ UNCHANGED <<tasks, mgrShutdown, registered>>
        /\ UNCHANGED <<jobs, entries, nextID, panicked, lastEvent, removedJobs,
                       trace, oplog, fireVars, appVars, pipeVars, otherVars>>

NextShutdown ==
    \/ RegisterTaskOp
    \/ Initiate
    \/ Wait

----------------------------------------------------------------------------
(* Connecting to the container runtime: docker.NewMonitor *)

VarRun == "unix:///var/run/docker.sock"
NamedPipe == "npipe:////./pipe/docker_engine"
WslData == "unix://\\\\wsl$\\docker-desktop-data\\version-pack-data\\community\\docker\\docker.sock"
WslLocal == "unix://\\\\wsl.localhost\\docker-desktop-data\\version-pack-data\\community\\docker\\docker.sock"

\* getDefaultSocketPath: the named pipe on windows, the unix socket elsewhere
getDefaultSocketPath(goos) == IF goos = "windows" THEN NamedPipe ELSE VarRun

\* the list walked by tryAlternativeSocketPaths, in its order
alternativePaths == <<NamedPipe, WslData, WslLocal, VarRun, VarRun>>

SocketPaths == {"", "/var/run/docker.sock", "/custom.sock"}
Platforms == {"linux", "windows"}
Configs == [Enabled : BOOLEAN, SocketPath : SocketPaths, GOOS : Platforms]

\* the endpoint NewMonitor builds its first client for
PrimaryHost(cfg) ==
    IF cfg.SocketPath # "" THEN "unix://" \o cfg.SocketPath
    ELSE getDefaultSocketPath(cfg.GOOS)

Endpoints == {NamedPipe, WslData, WslLocal, VarRun, "unix:///custom.sock"}

\* an attempt on an endpoint: NewClientWithOpts fails, or it succeeds and
\* Ping fails, or both succeed
Outcomes == {"no client", "no ping", "ok"}
Environments == [Endpoints -> Outcomes]

Connected(host) == [ok |-> TRUE, client |-> host]
ConnectError(host, cause) == [ok |-> FALSE, host |-> host, cause |-> cause]

\* the loop of tryAlternativeSocketPaths: the first path whose client can be
\* built and pinged, or else the error of the last path tried
RECURSIVE tryPaths(_, _, _)
tryPaths(e, paths, lastErr) ==
    IF paths = <<>> THEN lastErr
    ELSE IF e[Head(paths)] = "ok" THEN Connected(Head(paths))
    ELSE tryPaths(e, Tail(paths), ConnectError(Head(paths), e[Head(paths)]))

tryAlternativeSocketPaths(e) ==
    tryPaths(e, alternativePaths, ConnectError("", "none"))

\* NewMonitor: an error at once when the first client cannot be built; the
\* alternative paths when it can be built and its Ping fails
NewMonitor(cfg, e) ==
    LET host == PrimaryHost(cfg)
    IN IF e[host] = "no client" THEN ConnectError(host, "no client")
       ELSE IF e[host] = "no ping" THEN tryAlternativeSocketPaths(e)
       ELSE Connected(host)

NoMonitor == [ok |-> FALSE, host |-> "", cause |-> "disabled"]

----------------------------------------------------------------------------
(* Application lifecycle: cmd/crontask/main.go, internal/app/app.go,        *)
(* internal/signals/signals.go and Worker.Start/run/cleanup                 *)

workerVars == <<jobs, entries, nextID, panicked, lastEvent, removedJobs, trace,
                oplog, fireVars>>

\* app.New: worker.New connects to the runtime when Docker is enabled; an
\* error of NewMonitor is logged and the worker is built without a monitor
AppNew ==
    /\ runPc = "new"
    /\ monitor' = IF config.Enabled THEN NewMonitor(config, env) ELSE NoMonitor
    /\ runPc' = "run"
    /\ UNCHANGED <<config, env, runErr, sigPc, wg, ctxDone, workerPc, wShutdown,
                   cronRunning, monState, stopLog>>
    /\ UNCHANGED <<workerVars, mgrVars, pipeVars, otherVars>>

\* App.Run up to the wait for shutdown: the signal handler goroutine is
\* started, the two tasks are registered, worker.Start adds 1 to the wait
\* group, starts the run goroutine and returns nil
AppRun ==
    /\ runPc = "run"
    /\ sigPc' = "waiting"
    /\ tasks' = RegisterTask(RegisterTask(tasks, "worker", Task(FALSE)),
                             "application", Task(FALSE))
    /\ registered' = registered \o <<"worker", "application">>
    /\ wg' = wg + 1
    /\ workerPc' = "started"
    /\ runPc' = "awaitShutdown"
    /\ UNCHANGED <<config, env, monitor, runErr, ctxDone, wShutdown, cronRunning,
                   monState, stopLog>>
    /\ UNCHANGED <<workerVars, mgrShutdown, invoked, execErr, pipeVars, otherVars>>

\* Handle, its signal case: SIGTERM, SIGINT or SIGHUP arrives and the
\* callback calls shutdown.Initiate
Signal ==
    /\ sigPc = "waiting"
    /\ ~mgrShutdown
    /\ mgrShutdown' = TRUE
    /\ sigPc' = "signalled"
    /\ UNCHANGED <<config, env, monitor, runPc, runErr, wg, ctxDone, workerPc,
                   wShutdown, cronRunning, monState, stopLog>>
    /\ UNCHANGED <<workerVars, tasks, registered, invoked, execErr, pipeVars, otherVars>>

\* Handle, its context case
SignalCtxDone ==
    /\ sigPc = "waiting"
    /\ ctxDone
    /\ sigPc' = "cancelled"
    /\ UNCHANGED <<config, env, monitor, runPc, runErr, wg, ctxDone, workerPc,
                   wShutdown, cronRunning, monState, stopLog>>
    /\ UNCHANGED <<workerVars, mgrVars, pipeVars, otherVars>>

\* App.Run: <-a.shutdown.Done()
AppShutdownDone ==
    /\ runPc = "awaitShutdown"
    /\ mgrShutdown
    /\ runPc' = "awaitWorker"
    /\ UNCHANGED <<config, env, monitor, runErr, sigPc, wg, ctxDone, workerPc,
                   wShutdown, cronRunning, monState, stopLog>>
    /\ UNCHANGED <<workerVars, mgrVars, pipeVars, otherVars>>

\* App.Run: a.wg.Wait() returns, Run returns nil and its deferred cancel runs
AppWgWait ==
    /\ runPc = "awaitWorker"
    /\ wg = 0
    /\ runPc' = "returned"
    /\ runErr' = "nil"
    /\ ctxDone' = TRUE
    /\ UNCHANGED <<config, env, monitor, sigPc, wg, workerPc, wShutdown,
                   cronRunning, monState, stopLog>>
    /\ UNCHANGED <<workerVars, mgrVars, pipeVars, otherVars>>

\* Worker.run up to its select: the monitor, if there is one, and the cron
\* scheduler are started
WorkerRun ==
    /\ workerPc = "started"
    /\ monState' = IF monitor.ok THEN "started" ELSE monState
    /\ cronRunning' = TRUE
    /\ workerPc' = "select"
    /\ UNCHANGED <<config, env, monitor, runPc, runErr, sigPc, wg, ctxDone,
                   wShutdown, stopLog>>
    /\ UNCHANGED <<workerVars, mgrVars, pipeVars, otherVars>>

\* a Stop that leaves the scheduler running
CronStopIgnored(running) == running

\* cron.Stop: the scheduler's run loop ends and dispatches no entry any more;
\* the jobs it has started go on
CronStop(running) == FALSE

\* Worker.run, either case of its select, then cleanup: cron.Stop, then
\* dockerMon.Stop if there is a monitor; the goroutine ends without wg.Done
WorkerCleanup ==
    /\ workerPc = "select"
    /\ ctxDone \/ wShutdown
    /\ cronRunning' = CronStop(cronRunning)
    /\ monState' = IF monitor.ok THEN "stopped" ELSE monState
    /\ stopLog' = stopLog \o <<"cron.Stop">> \o
                      (IF monitor.ok THEN <<"dockerMon.Stop">> ELSE <<>>)
    /\ workerPc' = "stopped"
    /\ UNCHANGED <<config, env, monitor, runPc, runErr, sigPc, wg, ctxDone,
                   wShutdown>>
    /\ UNCHANGED <<workerVars, mgrVars, pipeVars, otherVars>>

\* the steps of the application that some run can take
NextApp ==
    \/ AppNew
    \/ AppRun
    \/ Signal
    \/ AppShutdownDone
    \/ WorkerRun

\* every step of the application's code
NextAppFull ==
    \/ NextApp
    \/ SignalCtxDone
    \/ AppWgWait
    \/ WorkerCleanup

\* the steps of NextAppFull left out of NextApp are never enabled: nothing
\* calls Manager.Wait, so no task closes Worker.shutdown; the context is
\* cancelled only when Run returns; and nothing calls wg.Done
AppDeadSteps ==
    /\ ~ENABLED SignalCtxDone
    /\ ~ENABLED AppWgWait
    /\ ~ENABLED WorkerCleanup

----------------------------------------------------------------------------
(* Runtime Adapter and the event pipeline: the runtime emits messages, the  *)
(* monitorEvents goroutine reads, inspects and forwards them through        *)
(* eventsChan, the handleDockerEvents goroutine processes them              *)

RuntimeStates == {"absent", "created", "running", "exited"}

\* the labels every container of the pipeline is created with
PipelineLabels == LOne

\* a message of the runtime's event stream; seq is its emission number
Message(action, id, seq) == [Action |-> action, ID |-> id, seq |-> seq]

\* getContainerInfo: the container as the runtime holds it at the time of
\* the call, or an error when the runtime has no such container
getContainerInfo(rt, id) ==
    IF rt[id] = "absent" THEN [err |-> TRUE]
    ELSE [err |-> FALSE, info |-> ContainerInfo(id, rt[id], PipelineLabels)]

\* a channel send that puts the value in front of the values waiting
SendFirst(ch, v) == <<v>> \o ch

\* dm.eventsChan <- v
Send(ch, v) == Append(ch, v)

\* an event in the channel, with the emission number of the message it was
\* made from (0 for a scan event)
Queued(event, seq) == [event |-> event, seq |-> seq]

Idle == [pc |-> "idle"]

appIdleVars == <<mgrVars, appVars>>

\* the runtime changes a container's state and emits the message; a message
\* emitted before the adapter has subscribed is not delivered to it
Emit(action, id) ==
    /\ emitted < MaxEmitted
    /\ emitted' = emitted + 1
    /\ stream' = IF adapterPc = "monitor" /\ errs = "open"
                  THEN Append(stream, Message(action, id, emitted + 1))
                  ELSE stream
    /\ UNCHANGED <<reader, eventsChan, adapterPc, toScan, received, processed>>
    /\ UNCHANGED <<workerVars, appIdleVars, otherVars>>

RuntimeCreate ==
    \E id \in DOMAIN runtime :
        /\ runtime[id] = "absent"
        /\ runtime' = [runtime EXCEPT ![id] = "created"]
        /\ Emit("create", id)

RuntimeStart ==
    \E id \in DOMAIN runtime :
        /\ runtime[id] \in {"created", "exited"}
        /\ runtime' = [runtime EXCEPT ![id] = "running"]
        /\ Emit("start", id)

RuntimeDie ==
    \E id \in DOMAIN runtime :
        /\ runtime[id] = "running"
        /\ runtime' = [runtime EXCEPT ![id] = "exited"]
        /\ Emit("die", id)

RuntimeDestroy ==
    \E id \in DOMAIN runtime :
        /\ runtime[id] \in {"created", "exited"}
        /\ runtime' = [runtime EXCEPT ![id] = "absent"]
        /\ Emit("destroy", id)

\* DockerMonitor.Start, scanExistingContainers: ContainerList(All: true)
MonitorStart ==
    \E order \in Orders([id \in {c \in DOMAIN runtime : runtime[c] # "absent"} |-> TRUE]) :
        /\ adapterPc = "new"
        /\ adapterPc' = "scan"
        /\ toScan' = order
        /\ UNCHANGED <<runtime, stream, reader, eventsChan, emitted, received,
                       processed>>
        /\ UNCHANGED <<workerVars, appIdleVars, otherVars>>

\* scanExistingContainers, one turn of its loop: inspect the container and
\* send a scan event, or go on to the next when the inspect fails
ScanNext ==
    /\ adapterPc = "scan"
    /\ toScan # <<>>
    /\ LET r == getContainerInfo(runtime, Head(toScan))
       IN IF r.err THEN UNCHANGED eventsChan
          ELSE /\ Len(eventsChan) < ChanCap
               /\ eventsChan' = Send(eventsChan,
                                     Queued(ContainerEvent("scan", r.info), 0))
    /\ toScan' = Tail(toScan)
    /\ UNCHANGED <<runtime, stream, reader, adapterPc, emitted, received, processed>>
    /\ UNCHANGED <<workerVars, appIdleVars, otherVars>>

\* Start returns: monitorEvents subscribes to the runtime's events, and
\* Worker.run starts handleDockerEvents
MonitorEvents ==
    /\ adapterPc = "scan"
    /\ toScan = <<>>
    /\ adapterPc' = "monitor"
    /\ UNCHANGED <<runtime, stream, reader, eventsChan, toScan, emitted, received,
                   processed>>
    /\ UNCHANGED <<workerVars, appIdleVars, otherVars>>

\* monitorEvents: a message is received from the stream
ReaderReceive ==
    /\ adapterPc = "monitor"
    /\ reader.pc = "idle"
    /\ stream # <<>>
    /\ reader' = [pc |-> "handle", msg |-> Head(stream)]
    /\ stream' = Tail(stream)
    /\ received' = Append(received, Head(stream))
    /\ UNCHANGED <<runtime, eventsChan, adapterPc, toScan, emitted, processed>>
    /\ UNCHANGED <<workerVars, appIdleVars, otherVars>>

\* handleEvent after its sleep: the container is inspected; when that fails
\* the message is dropped, otherwise the event is ready to be sent
ReaderInspect ==
    /\ reader.pc = "handle"
    /\ LET r == getContainerInfo(runtime, reader.msg.ID)
       IN reader' = IF r.err THEN Idle
                    ELSE [pc |-> "send",
                          out |-> Queued(ContainerEvent(reader.msg.Action, r.info),
                                         reader.msg.seq)]
    /\ UNCHANGED <<runtime, stream, eventsChan, adapterPc, toScan, emitted,
                   received, processed>>
    /\ UNCHANGED <<workerVars, appIdleVars, otherVars>>

\* handleEvent: the send on eventsChan, which waits while the channel is full
ReaderSend ==
    /\ reader.pc = "send"
    /\ Len(eventsChan) < ChanCap
    /\ eventsChan' = Send(eventsChan, reader.out)
    /\ reader' = Idle
    /\ UNCHANGED <<runtime, stream, adapterPc, toScan, emitted, received, processed>>
    /\ UNCHANGED <<workerVars, appIdleVars, otherVars>>

\* handleDockerEvents: an event is received from eventsChan and processed
ReceiveEvent ==
    \E order \in OrdersOf[PipelineLabels] :
        /\ adapterPc = "monitor"
        /\ ~handlerDone
        /\ eventsChan # <<>>
        /\ Reconcile(Head(eventsChan).event, order)
        /\ eventsChan' = Tail(eventsChan)
        /\ processed' = Append(processed,
                                Message(Head(eventsChan).event.Action,
                                        Head(eventsChan).event.ContainerID,
                                        Head(eventsChan).seq))
        /\ UNCHANGED <<runtime, stream, reader, adapterPc, toScan, emitted, received>>
        /\ UNCHANGED <<trace, oplog, fireVars, appIdleVars, otherVars>>

NextPipeline ==
    \/ RuntimeCreate
    \/ RuntimeStart
    \/ RuntimeDie
    \/ RuntimeDestroy
    \/ MonitorStart
    \/ ScanNext
    \/ MonitorEvents
    \/ ReaderReceive
    \/ ReaderInspect
    \/ ReaderSend
    \/ ReceiveEvent

----------------------------------------------------------------------------
(* Cancellation of the running worker: the context of App.Run is cancelled  *)
(* or Worker.Stop closes the shutdown channel                               *)

\* the root context is cancelled
Cancel ==
    /\ ~ctxDone
    /\ ctxDone' = TRUE
    /\ atSignal' = IF wShutdown THEN atSignal ELSE eventsChan
    /\ UNCHANGED <<config, env, monitor, runPc, runErr, sigPc, wg, workerPc,
                   wShutdown, cronRunning, monState, stopLog>>
    /\ UNCHANGED <<workerVars, mgrVars, pipeVars, extractVars, handlerDone, inflight,
                   errs>>

\* Worker.Stop: close(w.shutdown)
WorkerStop ==
    /\ ~wShutdown
    /\ wShutdown' = TRUE
    /\ atSignal' = IF ctxDone THEN atSignal ELSE eventsChan
    /\ UNCHANGED <<config, env, monitor, runPc, runErr, sigPc, wg, ctxDone,
                   workerPc, cronRunning, monState, stopLog>>
    /\ UNCHANGED <<workerVars, mgrVars, pipeVars, extractVars, handlerDone, inflight,
                   errs>>

\* monitorEvents, the ctx.Done and stopChan cases of its select: taken only
\* between two messages, never from inside handleEvent
ReaderReturn ==
    /\ adapterPc = "monitor"
    /\ reader.pc = "idle"
    /\ ctxDone \/ monState = "stopped"
    /\ reader' = [pc |-> "returned"]
    /\ UNCHANGED <<runtime, stream, eventsChan, adapterPc, toScan, emitted,
                   received, processed>>
    /\ UNCHANGED <<workerVars, appIdleVars, otherVars>>

\* handleDockerEvents, the ctx.Done and w.shutdown cases of its select
HandlerReturn ==
    /\ adapterPc = "monitor"
    /\ ~handlerDone
    /\ ctxDone \/ wShutdown
    /\ handlerDone' = TRUE
    /\ UNCHANGED <<extractVars, inflight, atSignal, errs, workerVars, mgrVars, appVars, pipeVars>>

\* the steps of the worker from its running state on
NextCancel ==
    \/ RuntimeCreate
    \/ RuntimeStart
    \/ RuntimeDie
    \/ RuntimeDestroy
    \/ ReaderReceive
    \/ ReaderInspect
    \/ ReaderSend
    \/ ReceiveEvent
    \/ Cancel
    \/ WorkerStop
    \/ ReaderReturn
    \/ HandlerReturn
    \/ WorkerCleanup

----------------------------------------------------------------------------
(* A transport error of the runtime's event source                          *)

\* the connection to the runtime fails: client.Events puts the error on errs
\* and delivers no message any more
StreamFail ==
    /\ adapterPc = "monitor"
    /\ errs = "open"
    /\ errs' = "failed"
    /\ UNCHANGED <<extractVars, handlerDone, inflight, atSignal>>
    /\ UNCHANGED <<workerVars, mgrVars, appVars, pipeVars>>

\* monitorEvents, the errs case of its select: the error is logged when it is
\* not nil, and the for loop goes on with the next select
ReaderError(r) == r

\* monitorEvents receives the error
MonitorError ==
    /\ adapterPc = "monitor"
    /\ reader.pc = "idle"
    /\ errs = "failed"
    /\ errs' = "closed"
    /\ reader' = ReaderError(reader)
    /\ UNCHANGED <<runtime, stream, eventsChan, adapterPc, toScan, emitted,
                   received, processed>>
    /\ UNCHANGED <<extractVars, handlerDone, inflight, atSignal>>
    /\ UNCHANGED <<workerVars, mgrVars, appVars>>

\* the running worker with an event source that can fail
NextStreamError ==
    \/ NextCancel
    \/ StreamFail
    \/ MonitorError

----------------------------------------------------------------------------
(* The monitor worker of docker_monitor_worker.go                           *)

\* runDockerMon after Start has returned and handleDockerEvents has been
\* started: the function is at its end, so its deferred calls run:
\* cleanupDockerMon, which calls dockerMon.Stop (stopChan closed, client
\* closed), then wg.Done
RunDockerMonReturn ==
    /\ workerPc = "runDockerMon"
    /\ monState' = IF monitor.ok THEN "stopped" ELSE monState
    /\ stopLog' = stopLog \o (IF monitor.ok THEN <<"dockerMon.Stop">> ELSE <<>>)
    /\ wg' = wg - 1
    /\ workerPc' = "stopped"
    /\ UNCHANGED <<config, env, monitor, runPc, runErr, sigPc, ctxDone,
                   wShutdown, cronRunning>>
    /\ UNCHANGED <<workerVars, mgrVars, pipeVars, otherVars>>

\* the steps of the monitor worker, its adapter and the Reconciler loop
NextDockerMon ==
    \/ RuntimeCreate
    \/ RuntimeStart
    \/ RuntimeDie
    \/ RuntimeDestroy
    \/ ReaderReceive
    \/ ReaderInspect
    \/ ReaderSend
    \/ ReceiveEvent
    \/ Cancel
    \/ ReaderReturn
    \/ HandlerReturn
    \/ RunDockerMonReturn

----------------------------------------------------------------------------
(* The Dispatcher across shutdown: executions that take time, started by    *)
(* the running scheduler, while the worker is cancelled and cleans up       *)

\* handleDockerEvents while it has not returned: an event is processed
HandleExecEvent ==
    /\ ~handlerDone
    /\ ProcessExecEvent

\* the running scheduler reaches an instant: the closure of every due entry
\* is started in its own goroutine; Execute stamps lastRun and calls
\* ExecuteTask, which is then in flight
CronFire ==
    \E t \in Instants :
        LET due == {x \in entries : DueAt[x.Spec][t]}
            stamped(e) == Execute(e.job, t, "ok").job
        IN /\ cronRunning
           /\ ~panicked
           /\ due # {}
           \* time moves on: t is later than every firing so far
           /\ \A x \in inflight \cup {[entry |-> y.entry, at |-> y.at] : y \in executions} :
                  x.at.min = t.min /\ x.at.hour = t.hour /\ x.at.sec < t.sec
           /\ inflight' = inflight \cup {[entry |-> e.ID, at |-> t] : e \in due}
           /\ entries' = {IF e \in due THEN [e EXCEPT !.job = stamped(e)] ELSE e :
                             e \in entries}
           /\ jobs' = [id \in DOMAIN jobs |->
                          IF \E e \in due : e.job = jobs[id]
                          THEN stamped(CHOOSE e \in due : e.job = jobs[id])
                          ELSE jobs[id]]
           /\ UNCHANGED <<nextID, panicked, lastEvent, removedJobs, trace, oplog,
                          executions, mgrVars, appVars, pipeVars, extractVars,
                          handlerDone, atSignal, errs>>

\* ExecuteTask returns to Execute and executeJob logs the outcome; the calls
\* are made with context.Background(), which nothing cancels
ExecReturn ==
    \E x \in inflight : \E outcome \in ExecOutcomes :
        \E e \in {y \in entries : y.ID = x.entry} :
            /\ inflight' = inflight \ {x}
            /\ executions' = executions \cup
                   {[entry |-> x.entry, at |-> x.at,
                     run |-> executeJob(e.job, x.at, outcome)]}
            /\ UNCHANGED <<jobs, entries, nextID, panicked, lastEvent, removedJobs,
                           trace, oplog, mgrVars, appVars, pipeVars, extractVars,
                           handlerDone, atSignal, errs>>

NextStop ==
    \/ HandleExecEvent
    \/ CronFire
    \/ ExecReturn
    \/ Cancel
    \/ HandlerReturn
    \/ WorkerCleanup

----------------------------------------------------------------------------
(* The Label Parser on its own: ExtractCronJobs applied to a container *)

ExtractContainers ==
    {ContainerInfo(id, state, l) :
        id \in ContainerIDs, state \in {"running", "exited"}, l \in AllLabelMaps}

\* registerContainerJobs: cronJobs := w.dockerMon.ExtractCronJobs(container)
ExtractOp ==
    \E order \in OrdersOf[extractIn.Labels] :
        \E r \in {ExtractCronJobs(extractIn, order)} :
            /\ ~extracted.done
            /\ extracted' = [done |-> TRUE, order |-> order, panic |-> r.panic,
                             cronJobs |-> r.cronJobs, warned |-> r.warned]
            /\ UNCHANGED <<extractIn, handlerDone, inflight, atSignal, errs, workerVars, mgrVars, appVars,
                           pipeVars>>

NextExtract == ExtractOp

----------------------------------------------------------------------------
(* Label handling: announcements of running containers whose label maps     *)
(* hold malformed, foreign and descriptor keys next to well-formed ones     *)

ParserLabelMaps == {LOne, LMixed, LNoOpen, LNoClose, LOther, LHourly, LOverlap}

LabelEvents ==
    {ContainerEvent(a, ContainerInfo(id, "running", l)) :
        a \in {"scan", "update"}, id \in ContainerIDs, l \in ParserLabelMaps}

ProcessLabelEvent ==
    \E event \in LabelEvents : \E order \in OrdersOf[event.Container.Labels] :
        /\ Reconcile(event, order)
        /\ UNCHANGED <<trace, oplog, restVars>>

\* worker.New: an empty registry and a scheduler without entries
InitWorker ==
    /\ jobs = NewJobRegistry
    /\ entries = {}
    /\ nextID = 0
    /\ panicked = FALSE
    /\ lastEvent = NoEvent
    /\ removedJobs = {}
    /\ trace = <<>>
    /\ oplog = <<>>

FireIdle ==
    /\ executions = {}
    /\ inflight = {}

\* shutdown.NewManager
MgrIdle ==
    /\ tasks = NewManager
    /\ mgrShutdown = FALSE
    /\ registered = <<>>
    /\ invoked = <<>>
    /\ execErr = "none"

\* the process before app.New, with the default configuration
DefaultConfig == [Enabled |-> TRUE, SocketPath |-> "/var/run/docker.sock",
                  GOOS |-> "linux"]

AppIdle ==
    /\ monitor = NoMonitor
    /\ runPc = "new"
    /\ runErr = "none"
    /\ sigPc = "none"
    /\ wg = 0
    /\ ctxDone = FALSE
    /\ workerPc = "none"
    /\ wShutdown = FALSE
    /\ cronRunning = FALSE
    /\ monState = "new"
    /\ stopLog = <<>>

\* docker.NewMonitor: nothing scanned, read or sent yet
PipeIdle ==
    /\ stream = <<>>
    /\ reader = Idle
    /\ eventsChan = <<>>
    /\ adapterPc = "new"
    /\ toScan = <<>>
    /\ emitted = 0
    /\ received = <<>>
    /\ processed = <<>>
    /\ handlerDone = FALSE
    /\ atSignal = <<>>
    /\ errs = "open"

\* nothing handed to ExtractCronJobs yet
NotExtracted ==
    [done |-> FALSE, order |-> <<>>, panic |-> FALSE, cronJobs |-> <<>>,
     warned |-> <<>>]

ExtractIdle ==
    /\ extractIn = ContainerInfo(ID1, "running", NoLabels)
    /\ extracted = NotExtracted

Init ==
    /\ InitWorker
    /\ FireIdle
    /\ MgrIdle
    /\ config = DefaultConfig
    /\ env = [h \in Endpoints |-> "ok"]
    /\ AppIdle
    /\ runtime = [id \in ContainerIDs |-> "absent"]
    /\ PipeIdle
    /\ ExtractIdle

\* the worker about to start its monitor, for every set of containers the
\* runtime may be running by then
InitPipeline ==
    /\ InitWorker
    /\ FireIdle
    /\ MgrIdle
    /\ config = DefaultConfig
    /\ env = [h \in Endpoints |-> "ok"]
    /\ AppIdle
    /\ runtime \in [ContainerIDs -> {"absent", "running"}]
    /\ PipeIdle
    /\ ExtractIdle

\* the worker about to start its monitor on a runtime that knows three
\* containers, each running or stopped
InitStartup ==
    /\ InitWorker
    /\ FireIdle
    /\ MgrIdle
    /\ config = DefaultConfig
    /\ env = [h \in Endpoints |-> "ok"]
    /\ AppIdle
    /\ runtime \in [StartupIDs -> {"running", "exited"}]
    /\ PipeIdle
    /\ ExtractIdle

\* the application running: app.New and App.Run up to its wait, Worker.run
\* in its select, the monitor started on a runtime without containers, the
\* reader and handleDockerEvents waiting
InitCancel ==
    /\ InitWorker
    /\ FireIdle
    /\ tasks = RegisterTask(RegisterTask(NewManager, "worker", Task(FALSE)),
                            "application", Task(FALSE))
    /\ mgrShutdown = FALSE
    /\ registered = <<"worker", "application">>
    /\ invoked = <<>>
    /\ execErr = "none"
    /\ config = DefaultConfig
    /\ env = [h \in Endpoints |-> "ok"]
    /\ monitor = NewMonitor(config, env)
    /\ runPc = "awaitShutdown"
    /\ runErr = "none"
    /\ sigPc = "waiting"
    /\ wg = 1
    /\ ctxDone = FALSE
    /\ workerPc = "select"
    /\ wShutdown = FALSE
    /\ cronRunning = TRUE
    /\ monState = "started"
    /\ stopLog = <<>>
    /\ runtime = [id \in ContainerIDs |-> "absent"]
    /\ stream = <<>>
    /\ reader = Idle
    /\ eventsChan = <<>>
    /\ adapterPc = "monitor"
    /\ toScan = <<>>
    /\ emitted = 0
    /\ received = <<>>
    /\ processed = <<>>
    /\ handlerDone = FALSE
    /\ atSignal = <<>>
    /\ errs = "open"
    /\ ExtractIdle

\* a container with any of the label maps, about to be handed to
\* ExtractCronJobs
InitExtract ==
    /\ InitWorker
    /\ FireIdle
    /\ MgrIdle
    /\ config = DefaultConfig
    /\ env = [h \in Endpoints |-> "ok"]
    /\ AppIdle
    /\ runtime = [id \in ContainerIDs |-> "absent"]
    /\ PipeIdle
    /\ extractIn \in ExtractContainers
    /\ extracted = NotExtracted

\* the process before app.New, for every configuration and every runtime
InitApp ==
    /\ InitWorker
    /\ FireIdle
    /\ MgrIdle
    /\ config \in Configs
    /\ env \in Environments
    /\ AppIdle
    /\ runtime = [id \in ContainerIDs |-> "absent"]
    /\ PipeIdle
    /\ ExtractIdle

Next == ProcessDockerEvent

Spec == Init /\ [][Next]_vars

SpecRegistry == Init /\ [][NextRegistry]_vars

NextReuse == ProcessReuseEvent

SpecReuse == Init /\ [][NextReuse]_vars

NextFire ==
    \/ ProcessFireEvent
    \/ Tick

SpecStartup == InitStartup /\ [][NextPipeline]_vars

SpecCancel == InitCancel /\ [][NextCancel]_vars

SpecStop == InitCancel /\ [][NextStop]_vars

SpecStreamError == InitCancel /\ [][NextStreamError]_vars

\* runDockerMon has started the adapter and the Reconciler loop and has not
\* returned yet; the scheduler is run by runCron
InitDockerMon ==
    /\ InitWorker
    /\ FireIdle
    /\ tasks = RegisterTask(RegisterTask(NewManager, "worker", Task(FALSE)),
                            "application", Task(FALSE))
    /\ mgrShutdown = FALSE
    /\ registered = <<"worker", "application">>
    /\ invoked = <<>>
    /\ execErr = "none"
    /\ config = DefaultConfig
    /\ env = [h \in Endpoints |-> "ok"]
    /\ monitor = NewMonitor(config, env)
    /\ runPc = "awaitShutdown"
    /\ runErr = "none"
    /\ sigPc = "waiting"
    /\ wg = 1
    /\ ctxDone = FALSE
    /\ workerPc = "runDockerMon"
    /\ wShutdown = FALSE
    /\ cronRunning = TRUE
    /\ monState = "started"
    /\ stopLog = <<>>
    /\ runtime = [id \in ContainerIDs |-> "absent"]
    /\ stream = <<>>
    /\ reader = Idle
    /\ eventsChan = <<>>
    /\ adapterPc = "monitor"
    /\ toScan = <<>>
    /\ emitted = 0
    /\ received = <<>>
    /\ processed = <<>>
    /\ handlerDone = FALSE
    /\ atSignal = <<>>
    /\ errs = "open"
    /\ ExtractIdle

SpecDockerMon == InitDockerMon /\ [][NextDockerMon]_vars

NextExecute ==
    \/ ProcessExecEvent
    \/ Tick

SpecExecute == Init /\ [][NextExecute]_vars

SpecFire == Init /\ [][NextFire]_vars

SpecShutdown == Init /\ [][NextShutdown]_vars

SpecPipeline == InitPipeline /\ [][NextPipeline]_vars

SpecExtract == InitExtract /\ [][NextExtract]_vars

SpecApp == InitApp /\ [][NextApp]_vars

SpecAppFull == InitApp /\ [][NextAppFull]_vars

NextLabels == ProcessLabelEvent

SpecLabels == Init /\ [][NextLabels]_vars

----------------------------------------------------------------------------
(* Properties of the Reconciler *)

RunningAnnounce(event) ==
    IsAnnounce(event.Action) /\ event.Container.State = "running"

\* the label keys the Label Parser turns into a (schedule, command) pair
ValidKeys(labels) ==
    {k \in DOMAIN labels : HasPrefix(k, LabelPrefix) /\ ParsedKeys[k].kind = "ok"}

LiveHandles(ents) == {e.ID : e \in ents}

\* C1: once a die or destroy event for a container has been processed, the
\* registry holds no job whose container id is that container's
C1_NoJobsAfterTerminal ==
    IsTerminal(lastEvent.Action) => JobsOf(jobs, lastEvent.ContainerID) = {}

\* a die or destroy that removed a job while another container keeps its own
C1_Witness ==
    /\ IsTerminal(lastEvent.Action)
    /\ removedJobs # {}
    /\ DOMAIN jobs # {}

\* C2: after a running container with k valid cron labels has been announced
\* and processed, the registry holds exactly k jobs of that container
C2_OneJobPerLabel ==
    (RunningAnnounce(lastEvent) /\ ~panicked) =>
        Cardinality(JobsOf(jobs, lastEvent.ContainerID))
            = Cardinality(ValidKeys(lastEvent.Container.Labels))

\* C3: between events, the dispatcher handle of every job in the registry
\* names exactly one live dispatcher entry
C3_HandleLive ==
    \A id \in DOMAIN jobs :
        Cardinality({e \in entries : e.ID = jobs[id].cronEntryID}) = 1

\* C4: processing a die or destroy event leaves no live dispatcher entry under
\* a handle that belonged to a job of that container
C4_EntriesGoneAfterTerminal ==
    [][IsTerminal(lastEvent'.Action) =>
          \A id \in JobsOf(jobs, lastEvent'.ContainerID) :
              jobs[id].cronEntryID \notin LiveHandles(entries')]_vars

\* C5: re-announcing a running container that has a scheduled job leaves no
\* live dispatcher entry under a handle of a job registered before the event,
\* and as many live entries for the container as it has jobs in the registry
C5_OldHandlesRetired ==
    [][(/\ RunningAnnounce(lastEvent')
        /\ \E id \in JobsOf(jobs, lastEvent'.ContainerID) :
               jobs[id].cronEntryID \in LiveHandles(entries)) =>
          /\ \A id \in JobsOf(jobs, lastEvent'.ContainerID) :
                 jobs[id].cronEntryID \notin LiveHandles(entries')
          /\ Cardinality(EntriesOf(entries', lastEvent'.ContainerID))
                 = Cardinality(JobsOf(jobs', lastEvent'.ContainerID))]_vars

\* what the registry says of each job, its dispatcher handle aside
JobsView(reg) ==
    [id \in DOMAIN reg |->
        [containerID |-> reg[id].containerID,
         cronExpr |-> reg[id].cronExpr,
         task |-> reg[id].task]]

\* C6: processing the same running snapshot a second time in a row leaves the
\* registry with the same job ids, schedules and commands
C6_ReregisterIdempotent ==
    [][(lastEvent' = lastEvent /\ RunningAnnounce(lastEvent)) =>
          JobsView(jobs') = JobsView(jobs)]_vars

\* the registry after one event processed by a freshly constructed worker
Alone(event, order) ==
    processDockerEvent(
        WorkerState(NewJobRegistry, [nextID |-> 0, entries |-> {}]), event, order).jobs

\* the events so far are create(running), die, create(running) of one id
ReuseScenario ==
    /\ Len(trace) = 3
    /\ trace[1].Action = "create" /\ RunningAnnounce(trace[1])
    /\ trace[2].Action = "die"
    /\ trace[3].Action = "create" /\ RunningAnnounce(trace[3])
    /\ trace[2].ContainerID = trace[1].ContainerID
    /\ trace[3].ContainerID = trace[1].ContainerID

\* C7: after create(running, L1), die, create(running, L2) of one container id
\* the registry holds the jobs that create(running, L2) alone leaves in an
\* empty registry
C7_ReuseEqualsAlone ==
    ReuseScenario =>
        \A order \in OrdersOf[trace[3].Container.Labels] :
            JobsView(jobs) = JobsView(Alone(trace[3], order))

\* a label key under the prefix that the Label Parser rejects
MalformedKeys(labels) ==
    {k \in DOMAIN labels : HasPrefix(k, LabelPrefix) /\ ParsedKeys[k].kind = "err"}

\* C10: when a running container with a malformed cron label is announced,
\* every well-formed cron label of the container still has its job registered
C10_WellFormedRegistered ==
    (/\ RunningAnnounce(lastEvent)
     /\ ~panicked
     /\ MalformedKeys(lastEvent.Container.Labels) # {}) =>
        \A k \in ValidKeys(lastEvent.Container.Labels) :
            \E id \in JobsOf(jobs, lastEvent.ContainerID) :
                /\ jobs[id].cronExpr = ParsedKeys[k].expr
                /\ jobs[id].task = lastEvent.Container.Labels[k]

----------------------------------------------------------------------------
(* Properties of the Job Registry *)

\* the last three operations are add(j), remove(j.id), add(j), j not held before
RoundTrip ==
    /\ Len(oplog) >= 3
    /\ LET n == Len(oplog)
       IN /\ oplog[n - 2].op = "AddJob"
          /\ oplog[n - 2].arg.id \notin oplog[n - 2].had
          /\ oplog[n - 1].op = "RemoveJob"
          /\ oplog[n - 1].arg = oplog[n - 2].arg.id
          /\ oplog[n].op = "AddJob"
          /\ oplog[n].arg = oplog[n - 2].arg

\* C8: for a job j not in the registry, add(j) returns true, remove(j.id) then
\* returns true, and a second add(j) returns true and leaves j under its id
C8_RoundTrip ==
    RoundTrip =>
        LET n == Len(oplog)
            j == oplog[n].arg
        IN /\ oplog[n - 2].ret = TRUE
           /\ oplog[n - 1].ret = TRUE
           /\ oplog[n].ret = TRUE
           /\ j.id \in DOMAIN jobs
           /\ jobs[j.id] = j
           /\ DOMAIN jobs = oplog[n - 2].had \cup {j.id}

C8_Witness == RoundTrip

\* C9: add(job) under a job id the registry already holds returns false and
\* leaves the registry, the held job's command and handle included, as it was
C9_CollisionRefused ==
    [][(/\ Len(oplog') = Len(oplog) + 1
        /\ Last(oplog').op = "AddJob"
        /\ Last(oplog').arg.id \in DOMAIN jobs) =>
          (Last(oplog').ret = FALSE /\ jobs' = jobs)]_vars

\* a refused add of a job whose command differs from the held job's, the held
\* job having its handle set
C9_Witness ==
    /\ oplog # <<>>
    /\ Last(oplog).op = "AddJob"
    /\ Last(oplog).arg.id \in Last(oplog).had
    /\ Last(oplog).ret = FALSE
    /\ jobs[Last(oplog).arg.id].task # Last(oplog).arg.task
    /\ jobs[Last(oplog).arg.id].cronEntryID # 0

\* C18: processing a scan, create, start or update event whose snapshot is
\* not running leaves the registry and the dispatcher's entries as they were
C18_NotRunningAnnounceFrame ==
    [][(IsAnnounce(lastEvent'.Action) /\ lastEvent'.Container.State # "running")
          => (jobs' = jobs /\ entries' = entries /\ nextID' = nextID)]_vars

\* a not-running announcement was processed for a container that holds a job
C18_Witness ==
    /\ IsAnnounce(lastEvent.Action)
    /\ lastEvent.Container.State # "running"
    /\ JobsOf(jobs, lastEvent.ContainerID) # {}
    /\ entries # {}

\* C19: at one due instant the scheduler starts at most one execution for a
\* job id, whatever events were processed before
C19_OneExecutionPerInstant ==
    \A x, y \in executions : x.run.job = y.run.job => x = y

\* the names registered, each once, in the order of their first registration
RECURSIVE FirstRegistrations(_)
FirstRegistrations(names) ==
    IF names = <<>> THEN <<>>
    ELSE LET init == FirstRegistrations(SubSeq(names, 1, Len(names) - 1))
             last == names[Len(names)]
         IN IF \E i \in 1..Len(init) : init[i] = last THEN init
            ELSE Append(init, last)

\* C14: the shutdown tasks are executed in the order they were registered
C14_RegistrationOrder ==
    execErr # "none" =>
        [i \in 1..Len(invoked) |-> invoked[i].name] = FirstRegistrations(registered)

\* C15: when the task sequence has run, every registered task was called
\* exactly once, also after a task that failed, and the sequence reports no error
C15_EveryTaskOnce ==
    execErr # "none" =>
        /\ \A n \in DOMAIN tasks :
               Cardinality({i \in 1..Len(invoked) : invoked[i].name = n}) = 1
        /\ \A i \in 1..Len(invoked) : invoked[i].name \in DOMAIN tasks
        /\ execErr = "nil"

\* the sequence ran three tasks, the first of which failed
C15_Witness ==
    /\ execErr # "none"
    /\ Len(invoked) = 3
    /\ invoked[1].err
    /\ ~invoked[3].err

\* the shutdown signal has arrived and Initiate was called
ShutdownInitiated == sigPc = "signalled" /\ mgrShutdown

\* C12: after the shutdown signal App.Run returns: it is never left blocked
\* on the wait group or on a channel with no step of the program to wake it
C12_RunReturns ==
    ShutdownInitiated => (runPc = "returned" \/ ENABLED NextAppFull)

\* C13: after shutdown is initiated the shutdown steps run: the worker is
\* told to stop and the dispatcher is stopped, and only then the monitor
C13_ShutdownStepsRun ==
    (ShutdownInitiated /\ ~ENABLED NextAppFull) =>
        /\ workerPc = "stopped"
        /\ ~cronRunning
        /\ stopLog = <<"cron.Stop">> \o
                         (IF monitor.ok THEN <<"dockerMon.Stop">> ELSE <<>>)

\* C16: when Docker is enabled and no connection to the runtime can be made,
\* the application does not go on to run: Run reports an error
C16_ConnectFailureFatal ==
    (config.Enabled /\ runPc # "new" /\ ~monitor.ok) =>
        (runPc = "run" \/ (runPc = "returned" /\ runErr \notin {"none", "nil"}))

\* the attempts in the order of the claim: the configured or default endpoint
\* first, then the fallback list
Candidates(cfg) == <<PrimaryHost(cfg)>> \o alternativePaths

\* C17: connect returns the first candidate, the primary endpoint first and
\* then the fallback list in order, whose client can be built and pinged,
\* and fails, with the last attempt's cause, only when every candidate fails
C17_FirstWorkingCandidate ==
    (config.Enabled /\ runPc # "new") =>
        monitor = tryPaths(env, Candidates(config), ConnectError("", "none"))

\* nothing is on its way: the stream and the channel are empty and the
\* reader holds no message
Quiescent ==
    /\ adapterPc = "monitor"
    /\ stream = <<>>
    /\ reader = Idle
    /\ eventsChan = <<>>

\* the messages the reader received for a container
ReceivedFor(id) == SelectSeq(received, LAMBDA m : m.ID = id)

\* C11: when the last message the adapter received for a container is die or
\* destroy, then once everything received has been handled the registry
\* holds no job of that container, also when the inspect of the container
\* fails because it is gone
C11_GoneContainerCleaned ==
    \A id \in ContainerIDs :
        (/\ Quiescent
         /\ ReceivedFor(id) # <<>>
         /\ IsTerminal(Last(ReceivedFor(id)).Action)) => JobsOf(jobs, id) = {}

\* the emission numbers along the pipeline, oldest first: processed, waiting
\* in the channel, held by the reader, waiting in the stream
InPipeline ==
    processed
    \o [i \in 1..Len(eventsChan) |->
           Message(eventsChan[i].event.Action, eventsChan[i].event.ContainerID,
                   eventsChan[i].seq)]
    \o (IF reader.pc = "send"
        THEN <<Message(reader.out.event.Action, reader.out.event.ContainerID,
                       reader.out.seq)>>
        ELSE IF reader.pc = "handle" THEN <<reader.msg>> ELSE <<>>)
    \o stream

\* C20: the events of a container are delivered to the Reconciler and
\* processed by it in the order the runtime emitted them
C20_EmissionOrder ==
    \A i, j \in 1..Len(InPipeline) :
        (i < j /\ InPipeline[i].ID = InPipeline[j].ID /\ InPipeline[j].seq # 0)
            => InPipeline[i].seq < InPipeline[j].seq

\* two events of one container were processed after waiting in the channel
\* together, and a third message of that container was read after them
C20_Witness ==
    /\ Len(processed) >= 2
    /\ processed[1].ID = processed[2].ID
    /\ processed[1].seq > 0
    /\ Len(ReceivedFor(processed[1].ID)) >= 3

----------------------------------------------------------------------------
(* Properties of the Label Parser and of registration *)

\* C22: a label under the prefix whose schedule is the descriptor @hourly
\* yields a registered job with a live dispatcher entry
C22_DescriptorRegistered ==
    (/\ RunningAnnounce(lastEvent)
     /\ ~panicked
     /\ KHourly \in DOMAIN lastEvent.Container.Labels) =>
        \E id \in JobsOf(jobs, lastEvent.ContainerID) :
            /\ jobs[id].cronExpr = Hourly
            /\ jobs[id].cronEntryID \in LiveHandles(entries)

\* C23: a label key without the prefix yields no job and no warning
C23_UnprefixedIgnored ==
    extracted.done =>
        /\ \A i \in 1..Len(extracted.cronJobs) :
               HasPrefix(extracted.cronJobs[i].LabelKey, LabelPrefix)
        /\ \A i \in 1..Len(extracted.warned) :
               HasPrefix(extracted.warned[i], LabelPrefix)

\* a container with a prefixed label and an unprefixed one was extracted,
\* and the prefixed label gave its job
C23_Witness ==
    /\ extracted.done
    /\ extractIn.Labels \in {LOther, LOtherBad}
    /\ Len(extracted.cronJobs) = 1
    /\ extracted.cronJobs[1].LabelKey = K5

\* C26: the command, container id, name and schedule text of a job held by
\* the registry are the same after every registry operation as before it
C26_JobFieldsFrozen ==
    [][\A id \in DOMAIN jobs \cap DOMAIN jobs' :
          /\ jobs'[id].task = jobs[id].task
          /\ jobs'[id].containerID = jobs[id].containerID
          /\ jobs'[id].cronExpr = jobs[id].cronExpr
          /\ jobs'[id].name = jobs[id].name
          /\ jobs'[id].id = jobs[id].id]_vars

\* a job's handle was set after an add of another command under its id was
\* refused
C26_Witness ==
    /\ Len(oplog) >= 3
    /\ Last(oplog).op = "SetCronEntryID"
    /\ jobs[Last(oplog).arg].cronEntryID # 0
    /\ oplog[Len(oplog) - 1].op = "AddJob"
    /\ oplog[Len(oplog) - 1].ret = FALSE
    /\ oplog[Len(oplog) - 1].arg.id = Last(oplog).arg
    /\ oplog[Len(oplog) - 1].arg.task # jobs[Last(oplog).arg].task

\* C28: after a registration step no job of the container carries a schedule
\* text that the dispatcher's parser rejects
C28_RejectedScheduleRolledBack ==
    RunningAnnounce(lastEvent) =>
        \A id \in JobsOf(jobs, lastEvent.ContainerID) :
            ParsedSchedules[jobs[id].cronExpr]

\* the label keys of the extracted container that carry the prefix
PrefixedKeys == {k \in DOMAIN extractIn.Labels : HasPrefix(k, LabelPrefix)}

\* the text strictly between the first (' of a key and the first ') after it
Between(labelKey) ==
    LET start == Index(labelKey, <<"(", "'">>)
        after == SubSeq(labelKey, start + 3, Len(labelKey))
        end == Index(after, <<"'", ")">>)
    IN IF start = -1 \/ end = -1 THEN [found |-> FALSE]
       ELSE [found |-> TRUE, text |-> SubSeq(after, 1, end)]

\* C29: for every prefixed key the extraction returns the text between ('
\* and a later ') or logs the key as malformed; it fails in no other way
C29_ExtractionTotal ==
    extracted.done =>
        /\ ~extracted.panic
        /\ \A k \in PrefixedKeys :
               \/ \E i \in 1..Len(extracted.warned) : extracted.warned[i] = k
               \/ \E i \in 1..Len(extracted.cronJobs) :
                      /\ extracted.cronJobs[i].LabelKey = k
                      /\ Between(k).found
                      /\ extracted.cronJobs[i].CronExpr = Between(k).text

----------------------------------------------------------------------------
(* Properties of execution *)

\* the steps in which the scheduler fired entries
Fired == executions' # executions

\* C21: when an execution fails, the registry holds the same job ids and the
\* scheduler the same entries as before, no job differs from before in
\* anything but lastRun, and the entry was run once (no retry)
C21_FailureChangesOnlyLastRun ==
    [][(Fired /\ \E x \in executions' : x.run.failed) =>
          /\ DOMAIN jobs' = DOMAIN jobs
          /\ \A id \in DOMAIN jobs :
                 jobs'[id] = [jobs[id] EXCEPT !.lastRun = jobs'[id].lastRun]
          /\ {<<e.ID, e.Spec, e.job.id>> : e \in entries'} =
                 {<<e.ID, e.Spec, e.job.id>> : e \in entries}
          /\ \A x \in executions' :
                 Cardinality({y \in executions' : y.entry = x.entry}) = 1]_vars

\* a registered job's execution has just failed and its lastRun is that instant
C21_Witness ==
    \E x \in executions :
        /\ x.run.failed
        /\ x.run.job \in DOMAIN jobs
        /\ jobs[x.run.job].cronEntryID = x.entry
        /\ jobs[x.run.job].lastRun = <<x.at>>

\* C27: every execution the scheduler starts runs the command of the job the
\* registry holds under the execution's job id at that time
C27_ExecutesRegisteredCommand ==
    [][Fired =>
          \A x \in executions' :
              /\ x.run.job \in DOMAIN jobs
              /\ jobs[x.run.job].task = x.run.Task
              /\ jobs[x.run.job].containerID = x.run.ContainerID]_vars

----------------------------------------------------------------------------
(* Properties of startup and of the pipeline *)

\* the scan is waiting to send the event of a container it could inspect
ScanBlocked ==
    /\ adapterPc = "scan"
    /\ toScan # <<>>
    /\ ~ENABLED ScanNext

\* nothing receives from eventsChan while the scan runs: handleDockerEvents
\* is started after Start has returned
ScanChannelNeverDrains ==
    [][adapterPc = "scan" => Len(eventsChan') >= Len(eventsChan)]_vars

\* the scan events in the pipeline for a container
ScansOf(id) == {i \in 1..Len(InPipeline) : InPipeline[i].seq = 0 /\ InPipeline[i].ID = id}

\* C24: the startup scan sends one scan event for every container the runtime
\* knows, running or not, and every scan event comes before every live event:
\* the scan never waits for ever, once it is over every container that has
\* been there all along has its one scan event, and no scan event follows a
\* live event
C24_ScanEveryContainerFirst ==
    /\ ~ScanBlocked
    /\ (adapterPc = "monitor" /\ emitted = 0) =>
           \A id \in DOMAIN runtime :
               runtime[id] # "absent" => Cardinality(ScansOf(id)) = 1
    /\ \A i, j \in 1..Len(InPipeline) :
           (i < j /\ InPipeline[j].seq = 0) => InPipeline[i].seq = 0

\* a step of one of the long-lived activities: the event reader, the
\* Reconciler loop, Worker.run with the Dispatcher
ActivityStep ==
    \/ ReaderReceive
    \/ ReaderInspect
    \/ ReaderSend
    \/ ReaderReturn
    \/ ReceiveEvent
    \/ HandlerReturn
    \/ WorkerCleanup

\* the reader and the Reconciler loop have returned and the Dispatcher is
\* stopped
Terminated ==
    /\ reader.pc = "returned"
    /\ handlerDone
    /\ ~cronRunning

\* C25: once cancellation or shutdown has been signalled, the activities have
\* all terminated whenever none of them can take a step; in particular the
\* reader is not left waiting on a send nobody will receive
C25_ActivitiesTerminate ==
    ((ctxDone \/ wShutdown) /\ ~ENABLED ActivityStep) => Terminated

\* the reader is in handleEvent, waiting to send on the full channel after
\* handleDockerEvents has returned
ReaderStuck ==
    /\ handlerDone
    /\ reader.pc = "send"
    /\ Len(eventsChan) >= ChanCap

\* a reader stuck like that stays stuck
ReaderStuckForGood == [][ReaderStuck => ReaderStuck']_vars

\* the last event processed was made from a live message of container id, and
\* the message the reader received for id just before that one was dropped
DroppedBeforeLast(id) ==
    /\ processed # <<>>
    /\ Last(processed).ID = id
    /\ Last(processed).seq # 0
    /\ lastEvent.ContainerID = id
    /\ \E k \in 2..Len(ReceivedFor(id)) :
           /\ ReceivedFor(id)[k].seq = Last(processed).seq
           /\ \A i \in 1..Len(processed) :
                  processed[i].seq # ReceivedFor(id)[k - 1].seq

\* what an event produces on its own: processed by a worker with an empty
\* registry and a scheduler without entries
OnItsOwn(event) ==
    {processDockerEvent(WorkerState(NewJobRegistry, [nextID |-> 0, entries |-> {}]),
                        event, order) : order \in OrdersOf[event.Container.Labels]}

\* the jobs of a container in a registry, and its entries in a scheduler,
\* without the handles
RegistryFor(reg, id) ==
    {<<j, reg[j].cronExpr, reg[j].task>> : j \in JobsOf(reg, id)}
DispatcherFor(ents, id) ==
    {<<e.Spec, e.job.id, e.job.task>> : e \in {x \in ents : x.job.containerID = id}}
EntryCountFor(ents, id) == Cardinality({x \in ents : x.job.containerID = id})

\* C30: after a dropped message, once the next event of the same container has
\* been processed, the registry and the scheduler hold for that container what
\* that event produces on its own
C30_NextEventReconverges ==
    \A id \in DOMAIN runtime :
        DroppedBeforeLast(id) =>
            \E w \in OnItsOwn(lastEvent) :
                /\ RegistryFor(jobs, id) = RegistryFor(w.jobs, id)
                /\ DispatcherFor(entries, id) = DispatcherFor(w.cron.entries, id)
                /\ EntryCountFor(entries, id) = EntryCountFor(w.cron.entries, id)

----------------------------------------------------------------------------
(* Frame properties of the registry and of the Reconciler *)

\* C38: RemoveJobsByContainer(c) removes the jobs whose container id is c and
\* no others, returns the ids of the jobs it removed, leaves every other job
\* as it was, and for a container without jobs changes nothing and returns
\* nothing
C38_RemoveByContainerExact ==
    [][(/\ Len(oplog') = Len(oplog) + 1
        /\ Last(oplog').op = "RemoveJobsByContainer") =>
          LET gone == JobsOf(jobs, Last(oplog').arg)
          IN /\ Last(oplog').ret = gone
             /\ DOMAIN jobs' = DOMAIN jobs \ gone
             /\ \A id \in DOMAIN jobs' : jobs'[id] = jobs[id]
             /\ gone = {} => (jobs' = jobs /\ Last(oplog').ret = {})]_vars

\* a removal by container took two jobs out, after which the registry is
\* empty; or took one out and left the job of another container
C38_Witness ==
    /\ oplog # <<>>
    /\ Last(oplog).op = "RemoveJobsByContainer"
    /\ \/ Cardinality(Last(oplog).ret) = 2
       \/ /\ Cardinality(Last(oplog).ret) = 1
          /\ \E id \in DOMAIN jobs : jobs[id].containerID # Last(oplog).arg

\* C39: processing an event whose action is none of scan, create, start,
\* update, die, destroy leaves the registry and the scheduler's entries as
\* they were
C39_UnknownActionFrame ==
    [][(~IsAnnounce(lastEvent'.Action) /\ ~IsTerminal(lastEvent'.Action))
          => (jobs' = jobs /\ entries' = entries /\ nextID' = nextID)]_vars

\* a stop event was processed for a container that holds a scheduled job
C39_Witness ==
    /\ lastEvent.Action = "stop"
    /\ JobsOf(jobs, lastEvent.ContainerID) # {}
    /\ \E e \in entries : e.job.containerID = lastEvent.ContainerID

----------------------------------------------------------------------------
(* Properties of firing and of shutdown *)

\* C36: every firing leaves the instant of the firing as the lastRun of the
\* job it ran, in the entry's closure and in the registry when the job is
\* registered, whether the execution succeeded or failed
C36_EveryFiringStamps ==
    [][Fired =>
          \A x \in executions' :
              /\ x.run.after.lastRun = <<x.at>>
              /\ \A e \in entries' : e.ID = x.entry => e.job.lastRun = <<x.at>>
              /\ \A id \in DOMAIN jobs' :
                     jobs'[id].cronEntryID = x.entry => jobs'[id].lastRun = <<x.at>>]_vars

\* one instant at which an execution succeeded and another failed, the job
\* of the failed one being registered
C36_Witness ==
    \E x, y \in executions :
        /\ ~x.run.failed
        /\ y.run.failed
        /\ y.run.job \in DOMAIN jobs
        /\ jobs[y.run.job].cronEntryID = y.entry
        /\ jobs[y.run.job].lastRun = <<y.at>>

\* the scheduler's entry set: handle, schedule, and the job each entry runs
EntrySet(ents) == {<<e.ID, e.Spec, e.job.id, e.job.cronEntryID>> : e \in ents}

DispatcherStopped == \E i \in 1..Len(stopLog) : stopLog[i] = "cron.Stop"

\* C35: once cleanup has stopped the Dispatcher no execution is started any
\* more, and an execution in flight is ended by its own return only: neither
\* cancellation nor cleanup takes it out of flight
C35_NoStartAfterStop ==
    [][/\ DispatcherStopped => inflight' \subseteq inflight
       /\ \A x \in inflight \ inflight' :
              \E y \in executions' \ executions : y.entry = x.entry /\ y.at = x.at]_vars

\* the Dispatcher has been stopped after cancellation, an execution started
\* before that is still in flight and another one has returned
C35_Witness ==
    /\ DispatcherStopped
    /\ ctxDone
    /\ inflight # {}
    /\ executions # {}

\* C31: when the Reconciler loop has returned, every event that was waiting
\* in the event channel when shutdown was signalled has been processed
C31_DrainedBeforeExit ==
    handlerDone =>
        \A i \in 1..Len(atSignal) :
            \E j \in 1..Len(processed) : processed[j].seq = atSignal[i].seq

\* C32: startup does not deadlock on the bounded event channel: as long as a
\* container is still to be scanned or a scan event waits in the channel, the
\* scan, the return of Start or the Reconciler loop can take its next step
C32_StartupNeverDeadlocks ==
    (adapterPc = "scan" \/ \E i \in 1..Len(eventsChan) : eventsChan[i].seq = 0) =>
        ENABLED ScanNext \/ ENABLED MonitorEvents \/ ENABLED ReceiveEvent

\* C40: a cron-labelled container that is running has its jobs in the
\* registry once the adapter has started and everything in the stream, in
\* the reader and in the event channel has been handled, whenever it entered
\* the running state
C40_RunningContainerRegistered ==
    \A id \in DOMAIN runtime :
        (Quiescent /\ runtime[id] = "running") => JobsOf(jobs, id) # {}

\* C34: the adapter is not stopped (stop channel closed, client closed) before
\* the context is cancelled or Stop is called
C34_AdapterRunsUntilAsked ==
    monState = "stopped" => (ctxDone \/ wShutdown)

\* C33: once the event source has reported a transport error to the reader,
\* the reader has terminated
C33_ReaderEndsOnError ==
    errs = "closed" => reader.pc = "returned"

====
